---- MODULE Spec2Model ----
(***************************************************************************)
(* A model of dict.go: a web front-end that looks words up at a remote     *)
(* dictionary service, caches the response bodies as files and wraps its   *)
(* handlers with a one-token rate limiter.                                 *)
(*                                                                         *)
(* Strings of the program (words, paths, statuses, bodies) are TLA+        *)
(* strings; a byte of a string s is SubSeq(s, i, i).                       *)
(***************************************************************************)
EXTENDS Integers, Sequences, FiniteSets, TLC

VARIABLES
    proc,      \* the process: "init" (not started), "running", "dead" (exited)
    fatal,     \* what ended the process (a log.Fatal or main's panic), "none" while nothing has
    env,       \* the environment of the process: XDG_CACHE_HOME, HOME, MkdirAll's outcome
    cacheDir,  \* the value initCacheDir returned at the last start that called it
    files,     \* the disk: path -> [data, by], by the request that wrote last
    tokens,    \* per limiter: the ticks buffered in its time.Tick channel (0 or 1)
    hist,      \* per endpoint: what happened since its ticker's last tick
    req        \* per request task: its position and its AppContext

vars == <<proc, fatal, env, cacheDir, files, tokens, hist, req>>

(***************************************************************************)
(* Bounds of the model.                                                    *)
(***************************************************************************)
MaxReq == 2        \* request tasks that can be in flight at once
MaxRejected == 2   \* requests rejected per endpoint between two ticks

Reqs == 1..MaxReq

(***************************************************************************)
(* path.Clean and path.Join of the Go standard library, as called at       *)
(* dict.go:56, :122, :124 and :198.                                        *)
(***************************************************************************)
Char(s, i) == SubSeq(s, i, i)

\* The elements of path s: the substrings between its "/" separators.
RECURSIVE SplitFrom(_, _, _, _)
SplitFrom(s, i, cur, out) ==
    IF i > Len(s) THEN Append(out, cur)
    ELSE IF Char(s, i) = "/" THEN SplitFrom(s, i + 1, "", Append(out, cur))
    ELSE SplitFrom(s, i + 1, cur \o Char(s, i), out)

Elements(s) == SplitFrom(s, 1, "", <<>>)

\* Clean's loop over the elements: "" and "." are skipped, ".." removes the
\* last kept element, or is kept (not rooted) or dropped (rooted) when there is none.
RECURSIVE CleanElems(_, _, _)
CleanElems(elems, rooted, out) ==
    IF elems = <<>> THEN out
    ELSE LET e == Head(elems)
             rest == Tail(elems)
         IN IF e = "" \/ e = "." THEN CleanElems(rest, rooted, out)
            ELSE IF e = ".." THEN
                IF out # <<>> /\ out[Len(out)] # ".."
                    THEN CleanElems(rest, rooted, SubSeq(out, 1, Len(out) - 1))
                ELSE IF rooted THEN CleanElems(rest, rooted, out)
                ELSE CleanElems(rest, rooted, Append(out, e))
            ELSE CleanElems(rest, rooted, Append(out, e))

RECURSIVE JoinElems(_)
JoinElems(elems) ==
    IF elems = <<>> THEN ""
    ELSE IF Len(elems) = 1 THEN elems[1]
    ELSE elems[1] \o "/" \o JoinElems(Tail(elems))

Clean(p) ==
    IF p = "" THEN "."
    ELSE LET rooted == Char(p, 1) = "/"
             out == CleanElems(Elements(p), rooted, <<>>)
         IN IF rooted THEN "/" \o JoinElems(out)
            ELSE IF out = <<>> THEN "." ELSE JoinElems(out)

\* path.Join(a, b): empty elements are ignored, the rest joined by "/" and
\* cleaned; "" when both are empty.
Join(a, b) ==
    IF a = "" /\ b = "" THEN ""
    ELSE IF a = "" THEN Clean(b)
    ELSE Clean(a \o "/" \o b)

\* strings.HasPrefix
HasPrefix(s, prefix) ==
    Len(s) >= Len(prefix) /\ SubSeq(s, 1, Len(prefix)) = prefix

\* path.Dir for a cleaned path: the path without its last element.
Parent(p) ==
    LET e == Elements(p)
        d == JoinElems(SubSeq(e, 1, Len(e) - 1))
    IN IF Len(e) = 1 THEN "."
       ELSE IF d = "" THEN "/" ELSE d

(***************************************************************************)
(* encoding/json on the bodies the model draws from.  json.Unmarshal is    *)
(* tabulated: for each body, the error it returns and the value it leaves  *)
(* in its target (the target starts as the zero value in every call).      *)
(***************************************************************************)
BodyEmptyList == "[]"
BodyWordA == "[{\"word\":\"a\"}]"
BodyError == "{\"title\":\"T\",\"message\":\"M\"}"
BodyHtml == "<html>"

\* A Word as decoded from BodyWordA (dict.go:17-21).
WordA == [Word |-> "a", Phonetics |-> <<>>, Meanings |-> <<>>]

\* json.Unmarshal(data, &app.Words): anything but a JSON array of objects is
\* an error and leaves Words nil (the empty list).
UnmarshalWords(data) ==
    IF data = BodyEmptyList THEN [err |-> FALSE, val |-> <<>>]
    ELSE IF data = BodyWordA THEN [err |-> FALSE, val |-> <<WordA>>]
    ELSE [err |-> TRUE, val |-> <<>>]

\* json.Unmarshal(data, &eResp): anything but a JSON object is an error and
\* leaves eResp zero.
UnmarshalError(data) ==
    IF data = BodyError THEN [err |-> FALSE, Title |-> "T", Message |-> "M"]
    ELSE [err |-> TRUE, Title |-> "", Message |-> ""]

\* The printable ASCII characters in the order of their codes: 32 to 95 and
\* 97 to 126 (96, the grave accent, cannot be written in a string here).
AsciiLow ==
    " !\"#$%&'()*+,-./0123456789:;<=>?@ABCDEFGHIJKLMNOPQRSTUVWXYZ[\\]^_"
AsciiHigh == "abcdefghijklmnopqrstuvwxyz{|}~"

\* The byte of each of these characters.
AsciiCode ==
    [c \in {Char(AsciiLow, i) : i \in 1..Len(AsciiLow)}
            \cup {Char(AsciiHigh, i) : i \in 1..Len(AsciiHigh)} |->
        IF \E i \in 1..Len(AsciiLow) : Char(AsciiLow, i) = c
        THEN 31 + (CHOOSE i \in 1..Len(AsciiLow) : Char(AsciiLow, i) = c)
        ELSE 96 + (CHOOSE i \in 1..Len(AsciiHigh) : Char(AsciiHigh, i) = c)]

\* The byte of an ASCII character.
ByteOf(c) == AsciiCode[c]

\* The bytes of a Go string of ASCII characters.
Bytes(s) == [i \in 1..Len(s) |-> ByteOf(Char(s, i))]

\* app.Error == nil.  The title of an error is held as its bytes, the
\* separator appended to it at dict.go:93 being no ASCII text.
NilError == [set |-> FALSE, Title |-> <<>>, Message |-> ""]

\* The separator appended to the title at dict.go:93, " \u2014 " in Go: a
\* space, the three UTF-8 bytes of U+2014 (e2 80 94) and a space.
TitleSep == <<32, 226, 128, 148, 32>>

(***************************************************************************)
(* initCacheDir and the directories it leaves on disk.                     *)
(***************************************************************************)
Envs == [xdg : {"", "/c"}, home : {"", "/h"}, mkdirOk : BOOLEAN]

\* The directory initCacheDir passes to os.MkdirAll; fatal when $HOME is
\* needed and not set.
CacheDirTarget(e) ==
    IF e.xdg # "" THEN [fatal |-> FALSE, dir |-> Join(e.xdg, "godict")]
    ELSE IF e.home = "" THEN [fatal |-> TRUE, dir |-> ""]
    ELSE [fatal |-> FALSE, dir |-> Join(Join(e.home, ".cache"), "godict")]

initCacheDir(e) ==
    LET t == CacheDirTarget(e)
    IN IF t.fatal THEN t
       ELSE IF ~e.mkdirOk THEN [fatal |-> FALSE, dir |-> ""]
       ELSE t

RECURSIVE Ancestors(_)
Ancestors(p) ==
    IF p = "/" \/ p = "." THEN {p} ELSE {p} \cup Ancestors(Parent(p))

\* The directories on disk: the root, the working directory and its parent,
\* and what MkdirAll created (the environment is the same at every start, so
\* a cache root that was returned once is the one that was made).
Dirs ==
    {"/", ".", ".."} \cup (IF cacheDir # "" THEN Ancestors(cacheDir) ELSE {})

(***************************************************************************)
(* os.ReadFile and os.WriteFile.                                           *)
(***************************************************************************)
\* os.ReadFile(p): the file's content; "notexist" when nothing is at p
\* (os.IsNotExist), "other" for a directory, a path through a file or a failed
\* read (ioOk is the device's answer).
ReadFile(p, ioOk) ==
    IF p \in DOMAIN files THEN
        IF ioOk THEN [err |-> "nil", data |-> files[p].data]
        ELSE [err |-> "other", data |-> ""]
    ELSE IF p \in Dirs THEN [err |-> "other", data |-> ""]
    ELSE IF \E q \in DOMAIN files : HasPrefix(p, q \o "/")
        THEN [err |-> "other", data |-> ""]
    ELSE [err |-> "notexist", data |-> ""]

\* Whether os.WriteFile can open p (O_WRONLY|O_CREATE|O_TRUNC): p is no
\* directory, its parent is one, and the disk takes it.
CanOpen(p, diskOk) ==
    /\ diskOk
    /\ p \notin Dirs
    /\ Parent(p) \in Dirs

\* What a file holding old holds after data is written at offset 0.
Overlay(old, data) ==
    IF Len(data) >= Len(old) THEN data
    ELSE data \o SubSeq(old, Len(data) + 1, Len(old))

(***************************************************************************)
(* The state after construction: nothing has run, the disk holds no cache. *)
(***************************************************************************)
Handlers == {"/", "/search", "/static/"}

\* A request task that has not started, with a zero AppContext.
IdleReq ==
    [pc |-> "idle", h |-> "", arg |-> "", invoked |-> FALSE, response |-> "none",
     word |-> "", cacheFile |-> "", readErr |-> "", cacheData |-> "",
     reads |-> {}, writes |-> {}, wrote |-> "no", fetches |-> 0,
     status |-> "", jsonData |-> "", Words |-> <<>>, Error |-> NilError]

\* An endpoint's interval right after the process started: no tick yet.
FreshHist == [ticked |-> FALSE, dropped |-> FALSE, invoked |-> 0, rejected |-> 0]

Init ==
    /\ proc = "init"
    /\ fatal = "none"
    /\ env \in Envs
    /\ cacheDir = ""
    /\ files = <<>>
    /\ tokens = [h \in Handlers |-> 0]
    /\ hist = [h \in Handlers |-> FreshHist]
    /\ req = [r \in Reqs |-> IdleReq]

(***************************************************************************)
(* main: the process starts (again, after it has exited; the disk stays).  *)
(***************************************************************************)
\* What main meets on its way: the template does not parse (template.Must
\* panics at dict.go:210), http.ListenAndServe cannot listen (:215), or neither.
Starts == {"ok", "template", "listen"}

Main(start) ==
    /\ proc \in {"init", "dead"}
    /\ IF start = "template"
       THEN /\ proc' = "dead"
            /\ fatal' = "template"
            /\ UNCHANGED cacheDir
       ELSE LET c == initCacheDir(env)
            IN /\ proc' = IF c.fatal \/ start = "listen" THEN "dead" ELSE "running"
               /\ fatal' = IF c.fatal THEN "home"
                           ELSE IF start = "listen" THEN "listen" ELSE "none"
               /\ cacheDir' = c.dir
    /\ tokens' = [h \in Handlers |-> 0]
    /\ hist' = [h \in Handlers |-> FreshHist]
    /\ req' = [r \in Reqs |-> IdleReq]
    /\ UNCHANGED <<env, files>>

\* dict.go:215: http.ListenAndServe returns while the process serves (the
\* listener failed) and log.Fatal ends the process, whatever the request
\* tasks are at; they and the limiters are gone with it, the disk stays.
ListenAndServeReturns ==
    /\ proc = "running"
    /\ proc' = "dead"
    /\ fatal' = "listen"
    /\ tokens' = [h \in Handlers |-> 0]
    /\ hist' = [h \in Handlers |-> FreshHist]
    /\ req' = [r \in Reqs |-> IdleReq]
    /\ UNCHANGED <<env, cacheDir, files>>

(***************************************************************************)
(* handleWithRateLimit.                                                    *)
(***************************************************************************)
\* A variant with one limiter for every handler.
LimiterShared(h) == "/"

\* The limiter a wrapped handler selects on: handleWithRateLimit makes one
\* time.Tick channel per call, so each handler has its own.
LimiterOf(h) == h

\* A variant whose receive leaves the tick in the channel.
AfterReceiveKeeps(t) == t

\* What the channel holds after the select received from it.
AfterReceive(t) == t - 1

\* A variant whose channel buffers every tick.
AfterTickAccumulates(t) == t + 1

\* What the channel holds after the ticker's send: time.Tick's channel has
\* room for one tick, a tick that finds it full is dropped.
AfterTick(t) == 1

\* The ticker of h's limiter fires: the tick is buffered, or dropped when one
\* is buffered already (dropped records that until the token is taken).
Tick(h) ==
    /\ proc = "running"
    /\ tokens' = [tokens EXCEPT ![LimiterOf(h)] = AfterTick(@)]
    /\ hist' = [hist EXCEPT ![h] = [ticked |-> TRUE,
                                     dropped |-> tokens[LimiterOf(h)] > 0,
                                     invoked |-> 0, rejected |-> 0]]
    /\ UNCHANGED <<proc, fatal, env, cacheDir, files, req>>

\* What handleStatic meets: whether os.Getwd and os.ReadFile of the asset succeed.
StaticFs == [getwd : BOOLEAN, read : BOOLEAN]
FsOk == [getwd |-> TRUE, read |-> TRUE]

\* handleStatic: only the whitelisted path is served; 500 when the working
\* directory or the file cannot be read.
StaticResponse(urlPath, fs) ==
    IF urlPath # "/static/dict.css" THEN "404"
    ELSE IF ~fs.getwd THEN "500"
    ELSE IF ~fs.read THEN "500"
    ELSE "asset"

\* A variant of handleSearch without the check for an empty word.
InvokeWithoutEmptyCheck(r, h, arg, fs) ==
    LET base == [IdleReq EXCEPT !.h = h, !.arg = arg, !.invoked = TRUE]
    IN IF h = "/" THEN [base EXCEPT !.pc = "done", !.response = "page"]
       ELSE IF h = "/static/"
           THEN [base EXCEPT !.pc = "done", !.response = StaticResponse(arg, fs)]
       ELSE [base EXCEPT !.pc = "searchWord", !.word = arg]

\* The handler's start, up to its first wait: handleRoot renders, handleStatic
\* answers, handleSearch redirects an empty word and else calls searchWord.
Invoke(r, h, arg, fs) ==
    LET base == [IdleReq EXCEPT !.h = h, !.arg = arg, !.invoked = TRUE]
    IN IF h = "/" THEN [base EXCEPT !.pc = "done", !.response = "page"]
       ELSE IF h = "/static/"
           THEN [base EXCEPT !.pc = "done", !.response = StaticResponse(arg, fs)]
       ELSE IF arg = "" THEN [base EXCEPT !.pc = "done", !.response = "303"]
       ELSE [base EXCEPT !.pc = "searchWord", !.word = arg]

\* select, case <-limiter: the token is taken and the handler runs.
Admit(r, h, arg, fs) ==
    /\ proc = "running"
    /\ req[r].pc \in {"idle", "done"}
    /\ tokens[LimiterOf(h)] > 0
    /\ tokens' = [tokens EXCEPT ![LimiterOf(h)] = AfterReceive(@)]
    /\ hist' = [hist EXCEPT ![h].invoked = @ + 1, ![h].dropped = FALSE]
    /\ req' = [req EXCEPT ![r] = Invoke(r, h, arg, fs)]
    /\ UNCHANGED <<proc, fatal, env, cacheDir, files>>

\* A variant whose default case runs the handler all the same.
RejectInvokes(r, h, arg, fs) ==
    /\ proc = "running"
    /\ req[r].pc \in {"idle", "done"}
    /\ tokens[LimiterOf(h)] = 0
    /\ hist[h].rejected < MaxRejected
    /\ hist' = [hist EXCEPT ![h].invoked = @ + 1, ![h].rejected = @ + 1]
    /\ req' = [req EXCEPT ![r] = Invoke(r, h, arg, fs)]
    /\ UNCHANGED <<proc, fatal, env, cacheDir, files, tokens>>

\* select, default: the rejection is logged, the handler does not run (the
\* request's argument and what the handler would have met, fs, are never
\* looked at) and nothing is written to the response.
Reject(r, h, arg, fs) ==
    /\ proc = "running"
    /\ req[r].pc \in {"idle", "done"}
    /\ tokens[LimiterOf(h)] = 0
    /\ hist[h].rejected < MaxRejected
    /\ hist' = [hist EXCEPT ![h].rejected = @ + 1]
    /\ req' = [req EXCEPT ![r] = [IdleReq EXCEPT !.pc = "done", !.h = h]]
    /\ UNCHANGED <<proc, fatal, env, cacheDir, files, tokens>>

(***************************************************************************)
(* searchWord, one action per step that other tasks can see or that can    *)
(* end the process: the cache read, the decoding of what was read, the     *)
(* outbound fetch, the two halves of os.WriteFile, the decoding of the     *)
(* body.                                                                   *)
(***************************************************************************)
\* log.Fatal: the process exits, every request task with it.
Fatal(r, cause, ctx) ==
    /\ proc' = "dead"
    /\ fatal' = cause
    /\ req' = [req EXCEPT ![r] = [ctx EXCEPT !.pc = "aborted"]]

\* searchWord returns; handleSearch renders the context.
Return(r, ctx) ==
    /\ req' = [req EXCEPT ![r] = [ctx EXCEPT !.pc = "done", !.response = "page"]]
    /\ UNCHANGED <<proc, fatal>>

\* dict.go:57 and :98: the cache is used when the joined path differs from the word.
CacheGuard(cacheFile, word) == cacheFile # word

\* A variant that goes on to the fetch after a hit too.
AfterCacheReadFallsThrough(err) == "fetch"

\* A variant that gives up (returns) when the entry exists and cannot be read.
AfterCacheReadUnreadableReturns(err) == IF err = "notexist" THEN "fetch" ELSE "return"

\* dict.go:59-71: a read without error returns from searchWord, any error
\* goes on to the fetch.
AfterCacheRead(err) == IF err = "nil" THEN "return" ELSE "fetch"

\* dict.go:55-58 and :66-71: the read of the cache file; a read without
\* error leaves the content with the task, to be decoded.
CacheRead(r, ioOk) ==
    /\ proc = "running"
    /\ req[r].pc = "searchWord"
    /\ LET cf == Join(cacheDir, req[r].word)
           ctx == [req[r] EXCEPT !.cacheFile = cf]
       IN IF ~CacheGuard(cf, req[r].word)
          THEN /\ req' = [req EXCEPT ![r] = [ctx EXCEPT !.pc = "fetch"]]
               /\ UNCHANGED <<proc, fatal>>
          ELSE LET res == ReadFile(cf, ioOk)
                   got == [ctx EXCEPT !.reads = {cf}, !.readErr = res.err]
               IN IF res.err # "nil"
                  THEN IF AfterCacheRead(res.err) = "fetch"
                       THEN /\ req' = [req EXCEPT ![r] = [got EXCEPT !.pc = "fetch"]]
                            /\ UNCHANGED <<proc, fatal>>
                       ELSE Return(r, got)
                  ELSE /\ req' = [req EXCEPT ![r] =
                                    [got EXCEPT !.pc = "hit", !.cacheData = res.data]]
                       /\ UNCHANGED <<proc, fatal>>
    /\ UNCHANGED <<env, cacheDir, files, tokens, hist>>

\* dict.go:59-64: the content that was read is decoded into Words; the
\* process exits when it does not decode, else searchWord returns.
CacheDecode(r) ==
    /\ proc = "running"
    /\ req[r].pc = "hit"
    /\ LET u == UnmarshalWords(req[r].cacheData)
           hit == [req[r] EXCEPT !.Words = u.val]
       IN IF u.err THEN Fatal(r, "cacheDecode", hit)
          ELSE IF AfterCacheRead(req[r].readErr) = "return" THEN Return(r, hit)
          ELSE /\ req' = [req EXCEPT ![r] = [hit EXCEPT !.pc = "fetch"]]
               /\ UNCHANGED <<proc, fatal>>
    /\ UNCHANGED <<env, cacheDir, files, tokens, hist>>

\* A variant that takes every status beginning with "2" for a success.
IsSuccessAny2xx(status) == HasPrefix(status, "2")

\* dict.go:87: the statuses searchWord takes for a success.
IsSuccess(status) == HasPrefix(status, "20")

\* What the upstream can answer: the GET fails, the body cannot be read, or a
\* response with a status and a body.
Statuses == {"200 OK", "226 IM Used", "404 Not Found"}
Bodies == {BodyEmptyList, BodyWordA, BodyError, BodyHtml}
Outcomes ==
    {[kind |-> k, status |-> "", body |-> ""] : k \in {"geterr", "readerr"}}
    \cup [kind : {"resp"}, status : Statuses, body : Bodies]

\* A variant that reports a transport failure to the user.
OnTransportErrorSurfaced(ctx) ==
    [ctx EXCEPT !.Error = [set |-> TRUE, Title |-> Bytes("Oops"), Message |-> ""]]

\* dict.go:75-78 and :82-85: a failed GET or body read is logged and
\* searchWord returns with the context as it is.
OnTransportError(ctx) == ctx

\* dict.go:73-95
Fetch(r, o) ==
    /\ proc = "running"
    /\ req[r].pc = "fetch"
    /\ LET ctx == [req[r] EXCEPT !.fetches = @ + 1]
       IN IF o.kind # "resp" THEN Return(r, OnTransportError(ctx))
          ELSE LET got == [ctx EXCEPT !.status = o.status, !.jsonData = o.body]
                   e == UnmarshalError(o.body)
               IN IF ~IsSuccess(o.status)
                  THEN IF e.err THEN Fatal(r, "errorDecode", got)
                       ELSE Return(r, [got EXCEPT !.Error =
                                [set |-> TRUE,
                                 Title |-> Bytes(e.Title) \o TitleSep \o Bytes(req[r].word),
                                 Message |-> e.Message]])
                  ELSE /\ req' = [req EXCEPT ![r] = [got EXCEPT !.pc = "cache"]]
                       /\ UNCHANGED <<proc, fatal>>
    /\ UNCHANGED <<env, cacheDir, files, tokens, hist>>

\* dict.go:100: the bytes handed to os.WriteFile.
CachePayload(jsonData) == jsonData

\* dict.go:98-100, os.WriteFile opening the file: it is created or truncated.
CacheOpen(r, diskOk) ==
    /\ proc = "running"
    /\ req[r].pc = "cache"
    /\ LET cf == req[r].cacheFile
       IN IF ~CacheGuard(cf, req[r].word)
          THEN /\ req' = [req EXCEPT ![r].pc = "decode"]
               /\ UNCHANGED files
          ELSE IF ~CanOpen(cf, diskOk)
          THEN /\ req' = [req EXCEPT ![r].pc = "decode", ![r].writes = {cf},
                                      ![r].wrote = "failed"]
               /\ UNCHANGED files
          ELSE /\ req' = [req EXCEPT ![r].pc = "write", ![r].writes = {cf}]
               /\ files' = [p \in DOMAIN files \cup {cf} |->
                                IF p = cf THEN [data |-> "", by |-> r] ELSE files[p]]
    /\ UNCHANGED <<proc, fatal, env, cacheDir, tokens, hist>>

\* How os.WriteFile can go on after its open: the bytes of data its Write
\* stores (none, the first half, all) and whether it returns nil; a short
\* Write is an error, and so is a failed Close after a whole Write.
WriteOutcomes(data) ==
    {[n |-> k, ok |-> FALSE] : k \in {0, Len(data) \div 2, Len(data)}}
    \cup {[n |-> Len(data), ok |-> TRUE]}

\* dict.go:100-104, os.WriteFile writing the body and closing; its error is
\* logged and the lookup goes on.
CacheWrite(r, w) ==
    /\ proc = "running"
    /\ req[r].pc = "write"
    /\ w \in WriteOutcomes(CachePayload(req[r].jsonData))
    /\ LET cf == req[r].cacheFile
           written == SubSeq(CachePayload(req[r].jsonData), 1, w.n)
       IN files' = [files EXCEPT ![cf] =
                       [data |-> Overlay(@.data, written), by |-> r]]
    /\ req' = [req EXCEPT ![r].pc = "decode",
                          ![r].wrote = IF w.ok THEN "ok" ELSE "failed"]
    /\ UNCHANGED <<proc, fatal, env, cacheDir, tokens, hist>>

\* dict.go:105-108
Decode(r) ==
    /\ proc = "running"
    /\ req[r].pc = "decode"
    /\ LET u == UnmarshalWords(req[r].jsonData)
           ctx == [req[r] EXCEPT !.Words = u.val]
       IN IF u.err THEN Fatal(r, "bodyDecode", ctx) ELSE Return(r, ctx)
    /\ UNCHANGED <<env, cacheDir, files, tokens, hist>>

(***************************************************************************)
(* Spec: the lookup pipeline behind /search, one request at a time, over   *)
(* every environment, word and upstream answer of the sets below.          *)
(***************************************************************************)
SearchWords == {"", "a", ".", "../a", "./a", "a/b"}

\* Every way a write of one of the bodies can go.
AllWriteOutcomes == UNION {WriteOutcomes(CachePayload(b)) : b \in Bodies}

Next ==
    \/ \E start \in Starts : Main(start)
    \/ ListenAndServeReturns
    \/ Tick("/search")
    \/ \E w \in SearchWords : Admit(1, "/search", w, FsOk)
    \/ \E w \in SearchWords : Reject(1, "/search", w, FsOk)
    \/ \E ioOk \in BOOLEAN : CacheRead(1, ioOk)
    \/ CacheDecode(1)
    \/ \E o \in Outcomes : Fetch(1, o)
    \/ \E diskOk \in BOOLEAN : CacheOpen(1, diskOk)
    \/ \E w \in AllWriteOutcomes : CacheWrite(1, w)
    \/ Decode(1)

Spec == Init /\ [][Next]_vars

(***************************************************************************)
(* SpecRate: the three wrapped endpoints and their limiters, with several  *)
(* request tasks; the requests are those that end in the handler's first   *)
(* step (/search is asked with an empty word), the lookups being Spec's.   *)
(***************************************************************************)
RateEnv == [xdg |-> "/c", home |-> "/h", mkdirOk |-> TRUE]

InitRate == Init /\ env = RateEnv

RateArgs(h) ==
    IF h = "/static/" THEN {"/static/dict.css", "/static/../secret"} ELSE {""}

\* handleStatic alone reads the file system, and only for the whitelisted path.
RateFs(a) == IF a = "/static/dict.css" THEN StaticFs ELSE {FsOk}

NextRate ==
    \/ \E start \in Starts : Main(start)
    \/ ListenAndServeReturns
    \/ \E h \in Handlers : Tick(h)
    \/ \E r \in Reqs, h \in Handlers :
          \E a \in RateArgs(h) : \E fs \in RateFs(a) : Admit(r, h, a, fs)
    \/ \E r \in Reqs, h \in Handlers : \E a \in RateArgs(h) : Reject(r, h, a, FsOk)

SpecRate == InitRate /\ [][NextRate]_vars

(***************************************************************************)
(* SpecConc: lookups of one word by several request tasks in flight        *)
(* together, every step of one interleaved with the steps of the others.   *)
(***************************************************************************)
ConcOutcomes ==
    {o \in Outcomes :
        \/ o.kind = "geterr"
        \/ (o.status = "200 OK" /\ o.body = BodyWordA)
        \/ (o.status = "404 Not Found" /\ o.body = BodyError)}

NextConc ==
    \/ \E start \in Starts : Main(start)
    \/ ListenAndServeReturns
    \/ Tick("/search")
    \/ \E r \in Reqs : Admit(r, "/search", "a", FsOk)
    \/ \E r \in Reqs : Reject(r, "/search", "a", FsOk)
    \/ \E r \in Reqs, ioOk \in BOOLEAN : CacheRead(r, ioOk)
    \/ \E r \in Reqs : CacheDecode(r)
    \/ \E r \in Reqs, o \in ConcOutcomes : Fetch(r, o)
    \/ \E r \in Reqs, diskOk \in BOOLEAN : CacheOpen(r, diskOk)
    \/ \E r \in Reqs, w \in AllWriteOutcomes : CacheWrite(r, w)
    \/ \E r \in Reqs : Decode(r)

SpecConc == InitRate /\ [][NextConc]_vars

(***************************************************************************)
(* The claims.                                                             *)
(***************************************************************************)
\* The lookup of request r is over: searchWord returned or the process exited in it.
Ended(r) == req[r].pc \in {"done", "aborted"}

\* C1: a lookup whose cache read succeeded makes no outbound fetch, writes
\* no cache path and ends with Words holding what decoding the content that
\* was read leaves there.
C1_CacheHitShortCircuit ==
    \A r \in Reqs : req[r].readErr = "nil" =>
        /\ req[r].pc \in {"hit", "done", "aborted"}
        /\ req[r].fetches = 0
        /\ req[r].status = ""
        /\ req[r].writes = {}
        /\ req[r].wrote = "no"
        /\ req[r].Words =
             (IF Ended(r) THEN UnmarshalWords(req[r].cacheData).val ELSE <<>>)
        /\ req[r].pc = "done" => ~UnmarshalWords(req[r].cacheData).err

\* A lookup served from a cached one-word list.
C1_Witness ==
    \E r \in Reqs :
        /\ req[r].pc = "done"
        /\ req[r].readErr = "nil"
        /\ req[r].cacheData = BodyWordA
        /\ req[r].Words = <<WordA>>

\* C2 as stated, for a second lookup that reads the entry the first left:
\* when a lookup of a word found no cache entry, got a response whose status
\* begins with "2" and has returned, and another lookup of the word has read
\* the entry as the first left it and is over, the second has returned too,
\* with the Words of the first.
C2_RoundTripForAllWords ==
    \A r, m \in Reqs :
        (/\ r # m
         /\ req[r].pc = "done"
         /\ req[r].readErr = "notexist"
         /\ HasPrefix(req[r].status, "2")
         /\ req[r].cacheFile \in DOMAIN files
         /\ files[req[r].cacheFile].by = r
         /\ req[m].word = req[r].word
         /\ req[m].readErr = "nil"
         /\ req[m].cacheData = files[req[r].cacheFile].data
         /\ Ended(m)) =>
            /\ req[m].pc = "done"
            /\ req[m].Words = req[r].Words

\* C3: a lookup that got a response whose status does not begin with "2"
\* ends with Error set, its title the upstream title followed by the
\* separator and the word, with Words empty and no cache write.
C3_UpstreamErrorHandling ==
    \A r \in Reqs :
        (Ended(r) /\ req[r].status # "" /\ ~HasPrefix(req[r].status, "2")) =>
            /\ req[r].Error.set
            /\ req[r].Error.Title =
                 Bytes(UnmarshalError(req[r].jsonData).Title) \o TitleSep
                     \o Bytes(req[r].word)
            /\ req[r].Words = <<>>
            /\ req[r].writes = {}

\* Requests issued to endpoint h since its ticker's last tick.
Issued(h) == hist[h].invoked + hist[h].rejected

\* C4 as stated: whenever more than one request to a wrapped handler was
\* issued within one tick interval, exactly one of them invoked the handler.
C4_ExactlyOneAdmitted ==
    \A h \in Handlers : Issued(h) > 1 => hist[h].invoked = 1

\* C4, amended: whenever more than one request to a wrapped handler was
\* issued between two ticks, exactly one of them invoked the handler; of the
\* requests issued before the first tick, none did.
C4_OneAdmittedAfterTick ==
    \A h \in Handlers :
        Issued(h) > 1 => hist[h].invoked = (IF hist[h].ticked THEN 1 ELSE 0)

\* An interval after a tick with one request admitted and another rejected.
C4_Witness ==
    \E h \in Handlers, r \in Reqs :
        /\ hist[h].ticked
        /\ hist[h].invoked = 1
        /\ hist[h].rejected >= 1
        /\ req[r].h = h
        /\ req[r].pc = "done"
        /\ ~req[r].invoked

\* C5 as stated: one token is shared by all endpoints, so no two endpoints
\* hold a token at once and no two endpoints have both admitted a request
\* since their last tick.
C5_SingleGlobalLimiter ==
    \A g, h \in Handlers : g # h =>
        /\ ~(tokens[g] = 1 /\ tokens[h] = 1)
        /\ ~(hist[g].invoked >= 1 /\ hist[h].invoked >= 1)

\* C5, amended: each endpoint has its own token: it is available exactly
\* when that endpoint's ticker has ticked and no request to that endpoint was
\* admitted since, whatever the other endpoints admitted; per endpoint at most
\* one request is admitted per tick.
C5_PerEndpointLimiter ==
    \A h \in Handlers :
        /\ tokens[h] = (IF hist[h].ticked /\ hist[h].invoked = 0 THEN 1 ELSE 0)
        /\ hist[h].invoked <= 1

\* One endpoint has consumed its token and another still holds its own.
C5_Witness ==
    \E g, h \in Handlers :
        /\ g # h
        /\ hist[g].ticked /\ hist[g].invoked = 1 /\ tokens[g] = 0
        /\ hist[h].ticked /\ tokens[h] = 1

\* Path p is the cache root or lies below it.
InsideRoot(p) == p = cacheDir \/ HasPrefix(p, cacheDir \o "/")

\* C6: with a cache root, every path searchWord read or wrote is the root
\* or lies below it.
C6_CachePathConfinement ==
    cacheDir # "" =>
        \A r \in Reqs : \A p \in req[r].reads \cup req[r].writes : InsideRoot(p)

\* C7: no failure to decode a payload ends the process.
C7_DecodeFailureIsRequestScoped ==
    fatal \notin {"cacheDecode", "errorDecode", "bodyDecode"}

\* C8: with a cache root, the body a lookup has stored in the cache decodes
\* as a list of words.
C8_CacheHoldsDecodableBodies ==
    \A r \in Reqs :
        (/\ cacheDir # ""
         /\ req[r].wrote = "ok"
         /\ req[r].cacheFile \in DOMAIN files
         /\ files[req[r].cacheFile].by = r) =>
            ~UnmarshalWords(files[req[r].cacheFile].data).err

\* C9: a lookup of a word whose key resolves to the cache root itself
\* reads and writes no cache path.
C9_DegenerateKeySkipsCache ==
    \A r \in Reqs :
        (/\ cacheDir # ""
         /\ req[r].word # ""
         /\ Join(cacheDir, req[r].word) = cacheDir) =>
            req[r].reads = {} /\ req[r].writes = {}

\* C10: with caching disabled (an empty cache root) no lookup reads or
\* writes a cache path, and every finished lookup has gone to the upstream.
C10_DisabledCacheDoesNoIO ==
    cacheDir = "" =>
        \A r \in Reqs :
            /\ req[r].reads = {}
            /\ req[r].writes = {}
            /\ (req[r].pc = "done" /\ req[r].word # "") => req[r].fetches = 1

\* C11 as stated: a finished lookup that got a response has Error set
\* exactly when the status does not begin with "2"; with a status beginning
\* with "2" its Words are the decoded body.
C11_FailureIffNotBeginning2 ==
    \A r \in Reqs :
        (req[r].pc = "done" /\ req[r].status # "") =>
            /\ req[r].Error.set <=> ~HasPrefix(req[r].status, "2")
            /\ HasPrefix(req[r].status, "2") =>
                 req[r].Words = UnmarshalWords(req[r].jsonData).val

\* C11, amended: a response is treated as a failure exactly when its status
\* does not begin with "20": the lookup then ends at once with no cache
\* write and empty Words, with Error set from the body, or with the process
\* exited when the body is no error record.  A response whose status begins
\* with "20" goes on to the cache write and the decoding, Error unset.
C11_FailureIffNotBeginning20 ==
    \A r \in Reqs :
        req[r].status # "" =>
            IF HasPrefix(req[r].status, "20")
            THEN /\ ~req[r].Error.set
                 /\ req[r].pc \in {"cache", "write", "decode", "done", "aborted"}
                 /\ req[r].pc = "done" =>
                      /\ req[r].Words = UnmarshalWords(req[r].jsonData).val
                      /\ CacheGuard(req[r].cacheFile, req[r].word) =>
                           req[r].writes = {req[r].cacheFile}
            ELSE /\ Ended(r)
                 /\ req[r].writes = {}
                 /\ req[r].Words = <<>>
                 /\ req[r].pc = "done" =>
                      /\ ~UnmarshalError(req[r].jsonData).err
                      /\ req[r].Error.set
                 /\ req[r].pc = "aborted" =>
                      /\ UnmarshalError(req[r].jsonData).err
                      /\ ~req[r].Error.set

\* A 226 response that ended as an upstream error.
C11_Witness ==
    \E r \in Reqs :
        /\ req[r].pc = "done"
        /\ req[r].status = "226 IM Used"
        /\ req[r].Error.set
        /\ req[r].writes = {}

\* C12: startup never ends the process, and leaves the cache root empty
\* when neither variable is set or the directory cannot be made.
C12_StartupNeverTerminates ==
    proc # "init" =>
        /\ fatal # "home"
        /\ ((env.xdg = "" /\ env.home = "") \/ ~env.mkdirOk) => cacheDir = ""

\* C13 as stated: a cache entry that holds a body never changes.
C13_EntriesNeverRewritten ==
    [][\A p \in DOMAIN files :
          files[p].data # "" => files'[p].data = files[p].data]_vars

\* C13, amended: a cache entry is created or rewritten only by a lookup of
\* its key that did not read it (it found no entry, or its read failed) and is
\* at its cache write; a lookup that read the entry never writes it.
C13_RewrittenOnlyAfterFailedRead ==
    [][\A p \in DOMAIN files' :
          (p \notin DOMAIN files \/ files'[p] # files[p]) =>
              LET r == files'[p].by
              IN /\ req[r].cacheFile = p
                 /\ req[r].readErr \in {"notexist", "other"}
                 /\ req[r].pc \in {"cache", "write"}]_vars

\* An entry written by one lookup and rewritten by another whose read of it
\* had failed.
C13_Witness ==
    \E r, m \in Reqs :
        /\ r # m
        /\ req[r].pc = "done" /\ req[r].wrote = "ok" /\ req[r].readErr = "notexist"
        /\ req[m].pc = "done" /\ req[m].wrote = "ok" /\ req[m].readErr = "other"
        /\ req[m].cacheFile = req[r].cacheFile
        /\ files[req[m].cacheFile].by = m

\* C14: a cache read that succeeded while another lookup of the key is
\* inside its write of the entry returned the whole body of one response.
C14_NoTornReads ==
    \A r, m \in Reqs :
        (/\ r # m
         /\ req[r].pc = "hit"
         /\ req[r].readErr = "nil"
         /\ req[m].pc = "write"
         /\ req[m].cacheFile = req[r].cacheFile
         /\ files[req[m].cacheFile].by = m) =>
            req[r].cacheData \in Bodies

\* C15: no context has both Error set and a non-empty Words list, and Error
\* is set only by the one fetch of a finished lookup.
C15_ResultErrorExclusive ==
    \A r \in Reqs :
        /\ ~(req[r].Error.set /\ req[r].Words # <<>>)
        /\ req[r].Error.set => (req[r].fetches = 1 /\ req[r].pc = "done")

\* A lookup that ended with an upstream error and no words.
C15_Witness ==
    \E r \in Reqs :
        /\ req[r].pc = "done"
        /\ req[r].Error.set
        /\ req[r].Error.Title = <<84, 32, 226, 128, 148, 32, 97>>
        /\ req[r].Words = <<>>

\* The fetch of request r failed at transport level: it was made and left no status.
TransportFailed(r) ==
    req[r].fetches = 1 /\ req[r].status = "" /\ req[r].pc # "fetch"

\* C16: a lookup whose fetch failed at transport level has returned with
\* Words empty and Error unset, has written nothing, and was rendered.
C16_TransportFailureIsSilent ==
    \A r \in Reqs :
        TransportFailed(r) =>
            /\ req[r].pc = "done"
            /\ req[r].response = "page"
            /\ req[r].Words = <<>>
            /\ req[r].Error = NilError
            /\ req[r].writes = {}
            /\ req[r].wrote = "no"

\* A miss whose fetch failed, rendered as an empty page.
C16_Witness ==
    \E r \in Reqs :
        /\ TransportFailed(r)
        /\ req[r].readErr = "notexist"
        /\ req[r].response = "page"

\* C17: an admitted /search request with an empty word is answered with
\* the 303 redirect, with no cache read, no cache write, no fetch and no page.
C17_EmptyWordRedirects ==
    \A r \in Reqs :
        (req[r].h = "/search" /\ req[r].invoked /\ req[r].arg = "") =>
            /\ req[r].pc = "done"
            /\ req[r].response = "303"
            /\ req[r].reads = {}
            /\ req[r].writes = {}
            /\ req[r].fetches = 0

\* An admitted /search request with an empty word, redirected.
C17_Witness ==
    \E r \in Reqs :
        /\ req[r].h = "/search"
        /\ req[r].invoked
        /\ req[r].arg = ""
        /\ req[r].response = "303"

\* C18: per endpoint, the handler invocations since the last tick and the
\* token still buffered together never exceed the one token that tick
\* delivered (none before the first tick), so over any run invocations never
\* exceed delivered tokens; a request that found no token is over without
\* having run the handler.
C18_TokenConsumptionAtomic ==
    /\ \A h \in Handlers :
          hist[h].invoked + tokens[h] <= (IF hist[h].ticked THEN 1 ELSE 0)
    /\ \A r \in Reqs :
          (req[r].h # "" /\ ~req[r].invoked) =>
              (req[r].pc = "done" /\ req[r].response = "none")

\* Two request tasks asked one endpoint within one interval: one took the
\* token, the other was rejected.
C18_Witness ==
    \E r, m \in Reqs :
        /\ r # m
        /\ req[r].h = req[m].h
        /\ req[r].invoked
        /\ req[m].pc = "done" /\ ~req[m].invoked
        /\ hist[req[r].h].invoked = 1
        /\ hist[req[r].h].rejected >= 1

\* C19: a lookup whose cache read failed though something is at the path
\* goes to the upstream, and ends as a lookup of the same word that found no
\* entry and got the same answer: same Words, same Error, same ending.
C19_UnreadableIsMiss ==
    \A r \in Reqs :
        req[r].readErr = "other" =>
            /\ req[r].pc # "searchWord"
            /\ Ended(r) => req[r].fetches = 1
            /\ \A m \in Reqs :
                 (/\ req[m].readErr = "notexist"
                  /\ req[m].word = req[r].word
                  /\ Ended(r) /\ Ended(m)
                  /\ req[m].status = req[r].status
                  /\ req[m].jsonData = req[r].jsonData) =>
                     /\ req[m].Words = req[r].Words
                     /\ req[m].Error = req[r].Error
                     /\ req[m].pc = req[r].pc
                     /\ req[m].response = req[r].response
                     /\ req[m].fetches = req[r].fetches

\* A miss and a failed read of the same word, both answered with the word list.
C19_Witness ==
    \E r, m \in Reqs :
        /\ req[r].readErr = "other" /\ req[m].readErr = "notexist"
        /\ req[r].pc = "done" /\ req[m].pc = "done"
        /\ req[r].status = "200 OK" /\ req[m].status = "200 OK"
        /\ req[r].Words = <<WordA>> /\ req[m].Words = <<WordA>>

\* C20: a limiter never holds more than one token and holds none before
\* its first tick; a tick that finds a token pending leaves the one token, and
\* between two ticks at most one request is admitted.
C20_TokensDoNotAccumulate ==
    \A h \in Handlers :
        /\ tokens[h] \in {0, 1}
        /\ ~hist[h].ticked => (tokens[h] = 0 /\ hist[h].invoked = 0)
        /\ hist[h].dropped => (tokens[h] = 1 /\ hist[h].invoked = 0)
        /\ hist[h].invoked <= 1

\* A tick was dropped on a pending token, and one token is what is left.
C20_Witness ==
    \E h \in Handlers : hist[h].dropped /\ tokens[h] = 1
====
